---- MODULE Spec2Model ----
(***************************************************************************)
(* Model of src/index.ts: a linear pipeline that loads a prompt            *)
(* configuration, fetches a user's public events, filters them, computes   *)
(* four counters, renders badges, asks a completion API for a summary and  *)
(* splices badges and summary between two marker comments of README.md.    *)
(*                                                                         *)
(* Text is modelled at character granularity: a string is a sequence of    *)
(* one-character strings.  Times are milliseconds since an arbitrary       *)
(* epoch.                                                                  *)
(***************************************************************************)
EXTENDS Integers, Sequences, FiniteSets, TLC

VARIABLES
    pc,                 \* position of the run
    readme,             \* contents of README.md on disk
    readme0,            \* contents of README.md before the run (history)
    writes,             \* number of completed writeFileSync calls (history)
    runs,               \* number of updateReadme calls made (history)
    steps,              \* the steps executed so far, in order (history)
    failed,             \* the step whose error was thrown, or "none"
    exitCode,           \* process exit status, -1 while running
    config,             \* result of loadPromptConfig
    login,              \* userInfo.login
    rawEvents,          \* events as delivered by listPublicEventsForUser
    now,                \* value of new Date() during the filter pass
    localOffset,        \* offset of the runner's local timezone, in ms
    dateParses,         \* whether new Date(<en-US locale string>) parses
    events,             \* events kept by fetchRecentActivity
    stats,              \* result of calculateActivityStats
    badges,             \* result of generateBadges
    formattedActivity,  \* result of formatActivityForAI
    request,            \* messages sent to the completion API
    summary,            \* result of generateSummary
    stamp               \* the timestamp text rendered by updateReadme

vars == <<pc, readme, readme0, writes, runs, steps, failed, exitCode, config, login,
          rawEvents, now, localOffset, dateParses, events, stats, badges,
          formattedActivity, request, summary, stamp>>

-----------------------------------------------------------------------------
(* Bounds of the model *)

MaxChunks == 4      \* README contents are built from at most this many chunks
MaxRuns == 2        \* updateReadme is applied at most this many times in a row
MaxEvents == 3      \* length of the event lists drawn as inputs
MaxCommits == 2     \* length of the commit arrays drawn as inputs

-----------------------------------------------------------------------------
(* Generic helpers *)

RECURSIVE SeqsUpTo(_, _)
\* all sequences over S of length at most n
SeqsUpTo(S, n) ==
    IF n = 0 THEN {<<>>}
    ELSE LET shorter == SeqsUpTo(S, n - 1)
         IN shorter \cup {Append(s, x) : s \in {t \in shorter : Len(t) = n - 1}, x \in S}

RECURSIVE Flatten(_)
\* concatenation of a sequence of strings
Flatten(ss) == IF ss = <<>> THEN <<>> ELSE Head(ss) \o Flatten(Tail(ss))

Min(a, b) == IF a < b THEN a ELSE b
Max(a, b) == IF a > b THEN a ELSE b

-----------------------------------------------------------------------------
(* JavaScript string primitives *)

\* String.prototype.indexOf: the 0-based index of the first occurrence, or -1
indexOf(s, pat) ==
    LET hits == {i \in 0..(Len(s) - Len(pat)) : SubSeq(s, i + 1, i + Len(pat)) = pat}
    IN IF hits = {} THEN -1 ELSE CHOOSE i \in hits : \A j \in hits : i <= j

\* String.prototype.substring(a, b): both arguments are clamped to 0..length
\* and swapped when a > b
substring(s, a, b) ==
    LET ca == Max(0, Min(a, Len(s)))
        cb == Max(0, Min(b, Len(s)))
    IN SubSeq(s, Min(ca, cb) + 1, Max(ca, cb))

Digit(d) == <<"0", "1", "2", "3", "4", "5", "6", "7", "8", "9">>[d + 1]

RECURSIVE toDecimal(_)
\* `${n}` of a non-negative integer
toDecimal(n) == IF n < 10 THEN <<Digit(n)>> ELSE toDecimal(n \div 10) \o <<Digit(n % 10)>>

-----------------------------------------------------------------------------
(* README updater *)

\* '<!-- GITHUB_ACTIVITY_START -->'
startMarker ==
    <<"<","!","-","-"," ","G","I","T","H","U","B","_","A","C","T","I","V","I","T","Y","_","S",
      "T","A","R","T"," ","-","-",">">>

\* '<!-- GITHUB_ACTIVITY_END -->'
endMarker ==
    <<"<","!","-","-"," ","G","I","T","H","U","B","_","A","C","T","I","V","I","T","Y","_","E",
      "N","D"," ","-","-",">">>

\* the pieces of the template literal of updateReadme
\* '\n\n## Recent Activity Stats\n\n'
TemplateHeading ==
    <<"\n","\n","#","#"," ","R","e","c","e","n","t"," ","A","c","t","i","v","i","t","y"," ","S",
      "t","a","t","s","\n","\n">>

\* '\n\n'
TemplateBlank ==
    <<"\n","\n">>

\* '\n\n*Last updated: '
TemplateUpdated ==
    <<"\n","\n","*","L","a","s","t"," ","u","p","d","a","t","e","d",":"," ">>

\* ' (Shanghai time) *\n\n'
TemplateTail ==
    <<" ","(","S","h","a","n","g","h","a","i"," ","t","i","m","e",")"," ","*","\n","\n">>

\* the block updateReadme puts between beforeMarker and afterMarker
Template(s, b, t) ==
    TemplateHeading \o b \o TemplateBlank \o s \o TemplateUpdated \o t \o TemplateTail

\* updateReadme with the test of endIndex left out: substring(-1) is the
\* whole content
updateReadmeStartOnly(readmeContent, s, b, shanghaiTime) ==
    LET startIndex == indexOf(readmeContent, startMarker)
        endIndex == indexOf(readmeContent, endMarker)
        beforeMarker == substring(readmeContent, 0, startIndex + Len(startMarker))
        afterMarker == substring(readmeContent, endIndex, Len(readmeContent))
    IN IF startIndex = -1
       THEN [threw |-> TRUE, wrote |-> FALSE, content |-> readmeContent]
       ELSE [threw |-> FALSE, wrote |-> TRUE,
             content |-> beforeMarker \o Template(s, b, shanghaiTime) \o afterMarker]

\* updateReadme on the content read from README.md: whether it throws, whether
\* it calls writeFileSync, and the content it hands to writeFileSync
updateReadme(readmeContent, s, b, shanghaiTime) ==
    LET startIndex == indexOf(readmeContent, startMarker)
        endIndex == indexOf(readmeContent, endMarker)
        beforeMarker == substring(readmeContent, 0, startIndex + Len(startMarker))
        afterMarker == substring(readmeContent, endIndex, Len(readmeContent))
    IN IF startIndex = -1 \/ endIndex = -1
       THEN [threw |-> TRUE, wrote |-> FALSE, content |-> readmeContent]
       ELSE [threw |-> FALSE, wrote |-> TRUE,
             content |-> beforeMarker \o Template(s, b, shanghaiTime) \o afterMarker]

-----------------------------------------------------------------------------
(* Time window *)

DayMs == 86400000               \* 24 * 60 * 60 * 1000
ShanghaiOffsetMs == 28800000    \* Asia/Shanghai is UTC+8, without daylight saving
SecondMs == 1000                \* the en-US locale string carries whole seconds

\* new Date(d.toLocaleString("en-US", {timeZone: SHANGHAI_TIMEZONE})).getTime():
\* the Shanghai wall clock of d, cut to whole seconds, read back as a wall
\* clock of the runner's own timezone (a fixed offset off)
shanghaiDate(d, off) == ((d + ShanghaiOffsetMs) \div SecondMs) * SecondMs - off

\* isWithinPastDay(eventDate) at the instant nowMs.  When the runtime does not
\* parse the locale string both dates are invalid and >= is false.
isWithinPastDay(eventDate, nowMs, off, parses) ==
    LET shanghaiNow == shanghaiDate(nowMs, off)
        oneDayAgo == shanghaiNow - DayMs
        eventShanghaiTime == shanghaiDate(eventDate, off)
    IN parses /\ eventShanghaiTime >= oneDayAgo

-----------------------------------------------------------------------------
(* Activity fetcher *)

\* event.repo.name.split('/')[0]
repoOwner(name) ==
    LET i == indexOf(name, <<"/">>)
    IN IF i = -1 THEN name ELSE SubSeq(name, 1, i)

\* the filter callback without the owner test
keepEventRecentOnly(event, userLogin, nowMs, off, parses) ==
    isWithinPastDay(event.created_at, nowMs, off, parses)

\* the filter callback of fetchRecentActivity
keepEvent(event, userLogin, nowMs, off, parses) ==
    LET isPersonalRepo == repoOwner(event.repo.name) = userLogin
        isRecent == isWithinPastDay(event.created_at, nowMs, off, parses)
    IN isPersonalRepo /\ isRecent

RECURSIVE recentPersonalEvents(_, _, _, _, _)
\* events.filter(...) of fetchRecentActivity: the events the callback keeps, in
\* the order of the input
recentPersonalEvents(evs, userLogin, nowMs, off, parses) ==
    IF evs = <<>> THEN <<>>
    ELSE LET rest == recentPersonalEvents(Tail(evs), userLogin, nowMs, off, parses)
         IN IF keepEvent(Head(evs), userLogin, nowMs, off, parses)
            THEN <<Head(evs)>> \o rest
            ELSE rest

-----------------------------------------------------------------------------
(* Stats aggregator *)

\* event.payload.commits?.length || 0
commitsLength(payload) ==
    IF "commits" \in DOMAIN payload THEN Len(payload.commits) ELSE 0

\* any action counts
isOpenedAnyAction(payload) == "action" \in DOMAIN payload

\* event.payload.action === 'opened'
isOpened(payload) == "action" \in DOMAIN payload /\ payload.action = "opened"

\* the repository added in the push case only
addRepoPushOnly(uniqueRepos, event) ==
    IF event.type = "PushEvent" THEN uniqueRepos \cup {event.repo.name} ELSE uniqueRepos

\* uniqueRepos.add(event.repo.name)
addRepo(uniqueRepos, event) == uniqueRepos \cup {event.repo.name}

\* the switch counting pushes instead of commits
countEventPerPush(st, event) ==
    CASE event.type = "PushEvent" -> [st EXCEPT !.commitCount = @ + 1]
      [] event.type = "PullRequestEvent" ->
            IF isOpened(event.payload) THEN [st EXCEPT !.prCount = @ + 1] ELSE st
      [] event.type = "IssuesEvent" ->
            IF isOpened(event.payload) THEN [st EXCEPT !.issueCount = @ + 1] ELSE st
      [] OTHER -> st

\* the switch of calculateActivityStats
countEvent(st, event) ==
    CASE event.type = "PushEvent" ->
            [st EXCEPT !.commitCount = @ + commitsLength(event.payload)]
      [] event.type = "PullRequestEvent" ->
            IF isOpened(event.payload) THEN [st EXCEPT !.prCount = @ + 1] ELSE st
      [] event.type = "IssuesEvent" ->
            IF isOpened(event.payload) THEN [st EXCEPT !.issueCount = @ + 1] ELSE st
      [] OTHER -> st

ZeroStats == [commitCount |-> 0, repoCount |-> 0, prCount |-> 0, issueCount |-> 0]

RECURSIVE statsLoop(_, _, _)
\* the for loop of calculateActivityStats
statsLoop(evs, st, uniqueRepos) ==
    IF evs = <<>> THEN [stats |-> st, uniqueRepos |-> uniqueRepos]
    ELSE statsLoop(Tail(evs), countEvent(st, Head(evs)), addRepo(uniqueRepos, Head(evs)))

calculateActivityStats(evs) ==
    LET r == statsLoop(evs, ZeroStats, {})
    IN [r.stats EXCEPT !.repoCount = Cardinality(r.uniqueRepos)]

-----------------------------------------------------------------------------
(* Badge generator *)

\* '![Recent Commits](https://img.shields.io/badge/Recent%20Commits-'
BadgeCommitsHead ==
    <<"!","[","R","e","c","e","n","t"," ","C","o","m","m","i","t","s","]","(","h","t","t","p",
      "s",":","/","/","i","m","g",".","s","h","i","e","l","d","s",".","i","o","/","b","a","d",
      "g","e","/","R","e","c","e","n","t","%","2","0","C","o","m","m","i","t","s","-">>

\* '-blue?style=flat&logoColor=white)'
BadgeCommitsTail ==
    <<"-","b","l","u","e","?","s","t","y","l","e","=","f","l","a","t","&","l","o","g","o","C",
      "o","l","o","r","=","w","h","i","t","e",")">>

\* '![Active Repos](https://img.shields.io/badge/Active%20Repos-'
BadgeReposHead ==
    <<"!","[","A","c","t","i","v","e"," ","R","e","p","o","s","]","(","h","t","t","p","s",":",
      "/","/","i","m","g",".","s","h","i","e","l","d","s",".","i","o","/","b","a","d","g","e",
      "/","A","c","t","i","v","e","%","2","0","R","e","p","o","s","-">>

\* '-green?style=flat&logoColor=white)'
BadgeReposTail ==
    <<"-","g","r","e","e","n","?","s","t","y","l","e","=","f","l","a","t","&","l","o","g","o",
      "C","o","l","o","r","=","w","h","i","t","e",")">>

\* '![Pull Requests](https://img.shields.io/badge/Pull%20Requests-'
BadgePRsHead ==
    <<"!","[","P","u","l","l"," ","R","e","q","u","e","s","t","s","]","(","h","t","t","p","s",
      ":","/","/","i","m","g",".","s","h","i","e","l","d","s",".","i","o","/","b","a","d","g",
      "e","/","P","u","l","l","%","2","0","R","e","q","u","e","s","t","s","-">>

\* '-orange?style=flat&logoColor=white)'
BadgePRsTail ==
    <<"-","o","r","a","n","g","e","?","s","t","y","l","e","=","f","l","a","t","&","l","o","g",
      "o","C","o","l","o","r","=","w","h","i","t","e",")">>

\* '![Issues Opened](https://img.shields.io/badge/Issues%20Opened-'
BadgeIssuesHead ==
    <<"!","[","I","s","s","u","e","s"," ","O","p","e","n","e","d","]","(","h","t","t","p","s",
      ":","/","/","i","m","g",".","s","h","i","e","l","d","s",".","i","o","/","b","a","d","g",
      "e","/","I","s","s","u","e","s","%","2","0","O","p","e","n","e","d","-">>

\* '-red?style=flat&logoColor=white)'
BadgeIssuesTail ==
    <<"-","r","e","d","?","s","t","y","l","e","=","f","l","a","t","&","l","o","g","o","C","o",
      "l","o","r","=","w","h","i","t","e",")">>

\* badges.join(' ')
generateBadges(st) ==
    BadgeCommitsHead \o toDecimal(st.commitCount) \o BadgeCommitsTail \o <<" ">>
    \o BadgeReposHead \o toDecimal(st.repoCount) \o BadgeReposTail \o <<" ">>
    \o BadgePRsHead \o toDecimal(st.prCount) \o BadgePRsTail \o <<" ">>
    \o BadgeIssuesHead \o toDecimal(st.issueCount) \o BadgeIssuesTail

-----------------------------------------------------------------------------
(* Activity formatter *)

MinuteMs == 60000       \* the rendered event time carries hour and minute

\* the Shanghai wall-clock minute an event time is rendered from
shanghaiEventTime(createdAt) == (createdAt + ShanghaiOffsetMs) \div MinuteMs

\* the line formatActivityForAI appends for one event, as the fields the
\* template string interpolates
formatEvent(event) ==
    LET at == shanghaiEventTime(event.created_at)
        repo == event.repo.name
    IN CASE event.type = "PushEvent" ->
               [at |-> at, phrase |-> "Pushed commit(s) to",
                commits |-> commitsLength(event.payload), repo |-> repo]
         [] event.type = "CreateEvent" ->
               [at |-> at, phrase |-> "Created in", payload |-> event.payload, repo |-> repo]
         [] event.type = "IssuesEvent" ->
               [at |-> at, phrase |-> "issue in", payload |-> event.payload, repo |-> repo]
         [] event.type = "PullRequestEvent" ->
               [at |-> at, phrase |-> "pull request in", payload |-> event.payload,
                repo |-> repo]
         [] event.type = "WatchEvent" -> [at |-> at, phrase |-> "Starred", repo |-> repo]
         [] event.type = "ForkEvent" -> [at |-> at, phrase |-> "Forked", repo |-> repo]
         [] event.type = "ReleaseEvent" -> [at |-> at, phrase |-> "Released in", repo |-> repo]
         [] OTHER -> [at |-> at, phrase |-> "in", type |-> event.type, repo |-> repo]

\* formatActivityForAI: the header with the current Shanghai time, then either
\* the no-activity sentence or one line per event in input order
formatActivityForAI(evs, shanghaiTime) ==
    [asOf |-> shanghaiTime,
     noActivity |-> (Len(evs) = 0),
     lines |-> [i \in 1..Len(evs) |-> formatEvent(evs[i])]]

-----------------------------------------------------------------------------
(* Summary generator *)

Placeholder == [text |-> "{{input}}"]

\* msg.content.replace('{{input}}', activity): the first occurrence only
replaceInput(content, activity) ==
    LET hits == {i \in 1..Len(content) : content[i] = Placeholder}
    IN IF hits = {} THEN content
       ELSE LET first == CHOOSE i \in hits : \A j \in hits : i <= j
            IN [content EXCEPT ![first] = [activity |-> activity]]

\* config.messages.map(...)
buildMessages(cfg, activity) ==
    [i \in 1..Len(cfg.messages) |->
        [role |-> cfg.messages[i].role,
         content |-> replaceInput(cfg.messages[i].content, activity)]]

Whitespace == {" ", "\n", "\t"}

RECURSIVE trimStart(_)
trimStart(s) ==
    IF s # <<>> /\ Head(s) \in Whitespace THEN trimStart(Tail(s)) ELSE s

RECURSIVE trimEnd(_)
trimEnd(s) ==
    IF s # <<>> /\ s[Len(s)] \in Whitespace THEN trimEnd(SubSeq(s, 1, Len(s) - 1)) ELSE s

\* String.prototype.trim
trim(s) == trimEnd(trimStart(s))

\* 'No summary generated.'
NoSummary ==
    <<"N","o"," ","s","u","m","m","a","r","y"," ","g","e","n","e","r","a","t","e","d",".">>

\* response.choices[0]?.message.content?.trim() || "No summary generated."
summaryOf(response) ==
    IF Len(response.choices) = 0 THEN NoSummary
    ELSE LET message == response.choices[1].message
         IN IF "content" \notin DOMAIN message THEN NoSummary
            ELSE IF trim(message.content) = <<>> THEN NoSummary
                 ELSE trim(message.content)

-----------------------------------------------------------------------------
(* The run of main *)

\* the steps of main, in the order of its statements
mainSteps ==
    <<"loadPromptConfig", "getByUsername", "listPublicEventsForUser",
      "calculateActivityStats", "generateBadges", "formatActivityForAI",
      "generateSummary", "updateReadme">>

\* main with updateReadme called before generateSummary
stepAfterWriteFirst(step) ==
    CASE step = "formatActivityForAI" -> "updateReadme"
      [] step = "updateReadme" -> "generateSummary"
      [] step = "generateSummary" -> "done"
      [] OTHER -> LET i == CHOOSE k \in 1..Len(mainSteps) : mainSteps[k] = step
                  IN mainSteps[i + 1]

\* the statement main executes after `step` returns normally
stepAfter(step) ==
    LET i == CHOOSE k \in 1..Len(mainSteps) : mainSteps[k] = step
    IN IF i = Len(mainSteps) THEN "done" ELSE mainSteps[i + 1]

\* a catch block that logs and lets the process end normally
catchExitZero(kind) == [pc |-> "exit", exitCode |-> 0, failed |-> kind]

\* the catch block of main: log, then process.exit(1)
catchExit(kind) == [pc |-> "exit", exitCode |-> 1, failed |-> kind]

\* the effect of an error thrown by the current step
Throw(kind) ==
    LET c == catchExit(kind)
    IN /\ pc' = c.pc
       /\ exitCode' = c.exitCode
       /\ failed' = c.failed

\* the current step returns normally
Return(step) ==
    /\ pc' = stepAfter(step)
    /\ UNCHANGED <<exitCode, failed>>

-----------------------------------------------------------------------------
(* Inputs *)

\* an instant, 500 ms past a whole second
Base == 2 * DayMs + 500

\* values of new Date() during the filter pass
NowSet == {Base, Base + 500}

\* event timestamps around both edges of the window
CreatedSet == {Base - DayMs - 1000, Base - DayMs, Base - 1000, Base + 1000}

\* fixed-offset timezones of the runner
LocalOffsets == {0, ShanghaiOffsetMs}

Logins == {<<"a", "l">>, <<"a">>}

RepoNames ==
    {<<"a", "l", "/", "p">>, <<"A", "l", "/", "p">>, <<"a", "/", "p">>, <<"o", "/", "a", "l">>}

CommitArrays == SeqsUpTo({"c"}, MaxCommits)

\* payloads by event type; a push payload without a commit array exists too
Payloads(type) ==
    CASE type = "PushEvent" -> {[commits |-> c] : c \in CommitArrays} \cup {[size |-> 0]}
      [] type = "PullRequestEvent" -> {[action |-> a] : a \in {"opened", "closed"}}
      [] type = "IssuesEvent" -> {[action |-> a] : a \in {"opened", "reopened"}}
      [] type = "CreateEvent" -> {[ref_type |-> "branch"]}
      [] OTHER -> {[action |-> "started"]}

EventsOf(types, repos, times) ==
    UNION {{[type |-> ty, repo |-> [name |-> r], payload |-> p, created_at |-> t] :
              r \in repos, p \in Payloads(ty), t \in times} : ty \in types}

\* the API delivers events newest first
NewestFirst(evs) ==
    \A i \in 1..(Len(evs) - 1) : evs[i].created_at >= evs[i + 1].created_at

\* event lists for the stats aggregator
StatsEvents ==
    EventsOf({"PushEvent", "PullRequestEvent", "IssuesEvent", "WatchEvent"},
             {<<"a", "l", "/", "p">>, <<"a", "l", "/", "q">>}, {Base - 1000})
StatsLists == SeqsUpTo(StatsEvents, MaxEvents)

\* event lists for the activity fetcher
FetchEvents == EventsOf({"WatchEvent"}, RepoNames, CreatedSet)
FetchLists == {evs \in SeqsUpTo(FetchEvents, MaxEvents) : NewestFirst(evs)}

\* README contents: concatenations of markers, a partial marker and text
Chunks ==
    {startMarker, endMarker, <<"a">>, SubSeq(startMarker, 1, Len(startMarker) - 1)}
ReadmeSet == {Flatten(cs) : cs \in SeqsUpTo(Chunks, MaxChunks)}

\* summaries handed to updateReadme
SummarySet == {<<"s">>, NoSummary, <<"x">> \o endMarker \o <<"y">>}

\* renderings of the current Shanghai time
Stamps == {<<"1", "0", ":", "0", "0">>, <<"1", "0", ":", "0", "1">>}

\* outcomes of .prompt.yaml: a usable document, an empty document, and
\* documents that lack a key
GoodConfig ==
    [defined |-> TRUE, name |-> "n", description |-> "d", model |-> "m",
     modelParameters |-> [temperature |-> 1],
     messages |-> <<[role |-> "system", content |-> <<[text |-> "You summarize."]>>],
                    [role |-> "user",
                     content |-> <<[text |-> "Summarize: "], Placeholder, Placeholder>>]>>]
ConfigDocs ==
    {GoodConfig,
     [defined |-> FALSE],
     [defined |-> TRUE, name |-> "n", description |-> "d", model |-> "m",
      modelParameters |-> [temperature |-> 1]],
     [defined |-> TRUE, name |-> "n", description |-> "d", model |-> "m",
      messages |-> <<>>]}

\* completion responses: no choice, a message without content, blank content,
\* content with surrounding whitespace, content that quotes the end marker
Responses ==
    {[choices |-> <<>>],
     [choices |-> <<[message |-> [role |-> "assistant"]]>>]}
    \cup {[choices |-> <<[message |-> [role |-> "assistant", content |-> c]]>>] :
            c \in {<<" ", "\n">>, <<" ", "s", "\n">>, <<"x">> \o endMarker \o <<"y">>}}

\* inputs of a whole run
MainReadmes ==
    {<<"a">> \o startMarker \o <<"o">> \o endMarker \o <<"z">>,
     startMarker \o <<"a">>,
     endMarker \o <<"a">> \o startMarker,
     <<"a">>}
MainEvents ==
    {[type |-> "PushEvent", repo |-> [name |-> <<"a", "l", "/", "p">>],
      payload |-> [commits |-> <<"c", "c">>], created_at |-> Base - 1000],
     [type |-> "IssuesEvent", repo |-> [name |-> <<"o", "/", "a", "l">>],
      payload |-> [action |-> "opened"], created_at |-> Base - 1000],
     [type |-> "CreateEvent", repo |-> [name |-> <<"a", "l", "/", "p">>],
      payload |-> [ref_type |-> "branch"], created_at |-> Base - DayMs - 1000]}
MainLists == {evs \in SeqsUpTo(MainEvents, MaxEvents) : NewestFirst(evs)}

\* the value of the variables a specification does not use
Unused ==
    /\ config = [defined |-> FALSE]
    /\ login = <<>>
    /\ now = 0
    /\ localOffset = 0
    /\ dateParses = TRUE
    /\ stats = ZeroStats
    /\ formattedActivity = formatActivityForAI(<<>>, <<>>)
    /\ request = <<>>
    /\ stamp = <<>>

Fresh ==
    /\ readme0 = readme
    /\ writes = 0
    /\ runs = 0
    /\ steps = <<>>
    /\ failed = "none"
    /\ exitCode = -1

-----------------------------------------------------------------------------
(* Steps *)

\* loadPromptConfig, and the two log lines of main that read the result
LoadPromptConfig ==
    /\ pc = "loadPromptConfig"
    /\ steps' = Append(steps, "loadPromptConfig")
    /\ \/ /\ Throw("config")                \* readFileSync or yaml.load throws
          /\ UNCHANGED config
       \/ \E doc \in ConfigDocs :
            /\ config' = doc
            /\ IF doc.defined /\ "modelParameters" \in DOMAIN doc
               THEN Return("loadPromptConfig")
               ELSE Throw("config")         \* TypeError at config.name or .temperature
    /\ UNCHANGED <<readme, readme0, writes, runs, login, rawEvents, now, localOffset,
                   dateParses, events, stats, badges, formattedActivity, request,
                   summary, stamp>>

\* fetchRecentActivity up to the user lookup
GetByUsername ==
    /\ pc = "getByUsername"
    /\ steps' = Append(steps, "getByUsername")
    /\ \/ /\ Throw("user")
          /\ UNCHANGED login
       \/ /\ login' \in Logins
          /\ Return("getByUsername")
    /\ UNCHANGED <<readme, readme0, writes, runs, config, rawEvents, now, localOffset,
                   dateParses, events, stats, badges, formattedActivity, request,
                   summary, stamp>>

\* fetchRecentActivity from the event listing to its return.  The filter pass
\* is synchronous: every event is compared with the same reading of the clock.
ListPublicEventsForUser ==
    /\ pc = "listPublicEventsForUser"
    /\ steps' = Append(steps, "listPublicEventsForUser")
    /\ \/ /\ Throw("events")
          /\ UNCHANGED <<now, localOffset, dateParses, events>>
       \/ /\ now' \in NowSet
          /\ localOffset' \in LocalOffsets
          /\ dateParses' \in BOOLEAN
          /\ events' = recentPersonalEvents(rawEvents, login, now', localOffset', dateParses')
          /\ Return("listPublicEventsForUser")
    /\ UNCHANGED <<readme, readme0, writes, runs, config, login, rawEvents, stats, badges,
                   formattedActivity, request, summary, stamp>>

CalculateActivityStats ==
    /\ pc = "calculateActivityStats"
    /\ steps' = Append(steps, "calculateActivityStats")
    /\ stats' = calculateActivityStats(events)
    /\ Return("calculateActivityStats")
    /\ UNCHANGED <<readme, readme0, writes, runs, config, login, rawEvents, now,
                   localOffset, dateParses, events, badges, formattedActivity, request,
                   summary, stamp>>

GenerateBadges ==
    /\ pc = "generateBadges"
    /\ steps' = Append(steps, "generateBadges")
    /\ badges' = generateBadges(stats)
    /\ Return("generateBadges")
    /\ UNCHANGED <<readme, readme0, writes, runs, config, login, rawEvents, now,
                   localOffset, dateParses, events, stats, formattedActivity, request,
                   summary, stamp>>

FormatActivityForAI ==
    /\ pc = "formatActivityForAI"
    /\ steps' = Append(steps, "formatActivityForAI")
    /\ \E t \in Stamps : formattedActivity' = formatActivityForAI(events, t)
    /\ Return("formatActivityForAI")
    /\ UNCHANGED <<readme, readme0, writes, runs, config, login, rawEvents, now,
                   localOffset, dateParses, events, stats, badges, request, summary,
                   stamp>>

GenerateSummary ==
    /\ pc = "generateSummary"
    /\ steps' = Append(steps, "generateSummary")
    /\ IF "messages" \notin DOMAIN config
       THEN /\ Throw("summary")             \* TypeError at config.messages.map
            /\ UNCHANGED <<request, summary>>
       ELSE /\ request' = buildMessages(config, formattedActivity)
            /\ \/ /\ Throw("summary")       \* the completion call rejects
                  /\ UNCHANGED summary
               \/ \E response \in Responses :
                    /\ summary' = summaryOf(response)
                    /\ Return("generateSummary")
    /\ UNCHANGED <<readme, readme0, writes, runs, config, login, rawEvents, now,
                   localOffset, dateParses, events, stats, badges, formattedActivity,
                   stamp>>

\* updateReadme with its file I/O.  A write that fails leaves the file as it
\* was or, when the failure comes after the file was opened for writing, empty.
UpdateReadme ==
    /\ pc = "updateReadme"
    /\ steps' = Append(steps, "updateReadme")
    /\ runs' = runs + 1
    /\ \/ /\ Throw("read")                  \* readFileSync throws
          /\ UNCHANGED <<readme, writes, stamp>>
       \/ \E t \in Stamps :
            LET r == updateReadme(readme, summary, badges, t)
            IN /\ stamp' = t
               /\ IF r.threw
                  THEN /\ Throw("markers")
                       /\ readme' = IF r.wrote THEN r.content ELSE readme
                       /\ writes' = IF r.wrote THEN writes + 1 ELSE writes
                  ELSE \/ /\ r.wrote
                          /\ readme' = r.content
                          /\ writes' = writes + 1
                          /\ Return("updateReadme")
                       \/ /\ r.wrote
                          /\ readme' \in {readme, <<>>}     \* writeFileSync throws
                          /\ UNCHANGED writes
                          /\ Throw("write")
    /\ UNCHANGED <<readme0, config, login, rawEvents, now, localOffset, dateParses,
                   events, stats, badges, formattedActivity, request, summary>>

\* main returns and the process ends with status 0
Finish ==
    /\ pc = "done"
    /\ pc' = "exit"
    /\ exitCode' = 0
    /\ UNCHANGED <<readme, readme0, writes, runs, steps, failed, config, login,
                   rawEvents, now, localOffset, dateParses, events, stats, badges,
                   formattedActivity, request, summary, stamp>>

\* the next scheduled run reaches updateReadme with the same summary and badges
Again ==
    /\ pc \in {"done", "exit"}
    /\ runs < MaxRuns
    /\ pc' = "updateReadme"
    /\ failed' = "none"
    /\ exitCode' = -1
    /\ UNCHANGED <<readme, readme0, writes, runs, steps, config, login, rawEvents, now,
                   localOffset, dateParses, events, stats, badges, formattedActivity,
                   request, summary, stamp>>

-----------------------------------------------------------------------------
(* Specifications *)

\* a whole run of main
Init ==
    /\ pc = "loadPromptConfig"
    /\ readme \in MainReadmes
    /\ rawEvents \in MainLists
    /\ events = <<>>
    /\ badges = <<>>
    /\ summary = <<>>
    /\ Unused
    /\ Fresh

Next ==
    \/ LoadPromptConfig
    \/ GetByUsername
    \/ ListPublicEventsForUser
    \/ CalculateActivityStats
    \/ GenerateBadges
    \/ FormatActivityForAI
    \/ GenerateSummary
    \/ UpdateReadme
    \/ Finish

Spec == Init /\ [][Next]_vars

\* calculateActivityStats on every event list
StatsInit ==
    /\ pc = "calculateActivityStats"
    /\ readme = <<>>
    /\ rawEvents = <<>>
    /\ events \in StatsLists
    /\ badges = <<>>
    /\ summary = <<>>
    /\ Unused
    /\ Fresh

StatsNext == CalculateActivityStats \/ GenerateBadges

SpecStats == StatsInit /\ [][StatsNext]_vars

\* fetchRecentActivity on every delivered event list
FetchInit ==
    /\ pc = "getByUsername"
    /\ readme = <<>>
    /\ rawEvents \in FetchLists
    /\ events = <<>>
    /\ badges = <<>>
    /\ summary = <<>>
    /\ Unused
    /\ Fresh

FetchNext == GetByUsername \/ ListPublicEventsForUser

SpecFetch == FetchInit /\ [][FetchNext]_vars

\* updateReadme, run after run, on every README content
ReadmeInit ==
    /\ pc = "updateReadme"
    /\ readme \in ReadmeSet
    /\ rawEvents = <<>>
    /\ events = <<>>
    /\ badges = generateBadges(ZeroStats)
    /\ summary \in SummarySet
    /\ Unused
    /\ Fresh

ReadmeNext == UpdateReadme \/ Again

SpecReadme == ReadmeInit /\ [][ReadmeNext]_vars

-----------------------------------------------------------------------------
(* Vocabulary of the properties *)

\* `step` has been executed
Ran(step) == \E i \in 1..Len(steps) : steps[i] = step

\* pat occurs in s
Occurs(s, pat) == \E i \in 1..(Len(s) - Len(pat) + 1) : SubSeq(s, i, i + Len(pat) - 1) = pat

IsPrefix(s, t) == Len(s) <= Len(t) /\ SubSeq(t, 1, Len(s)) = s

RECURSIVE IsSubsequence(_, _)
\* s is t with some elements removed
IsSubsequence(s, t) ==
    IF s = <<>> THEN TRUE
    ELSE IF t = <<>> THEN FALSE
    ELSE IF Head(s) = Head(t) THEN IsSubsequence(Tail(s), Tail(t))
    ELSE IsSubsequence(s, Tail(t))

\* the part of a repository full name before the first '/'
OwnerSegment(name) ==
    LET k == CHOOSE n \in 0..Len(name) :
                 /\ \A j \in 1..n : name[j] # "/"
                 /\ n = Len(name) \/ name[n + 1] = "/"
    IN SubSeq(name, 1, k)

\* the number of indices of evs that satisfy P
CountOf(evs, P(_)) == Cardinality({i \in 1..Len(evs) : P(evs[i])})

\* new is old with the text between a start marker and a later end marker
\* replaced: both markers and all the text outside them are as in old
SplicedBetweenMarkers(old, new) ==
    \E i \in 1..(Len(old) - Len(startMarker) + 1), j \in 1..(Len(old) - Len(endMarker) + 1) :
        LET head == i + Len(startMarker) - 1    \* the start marker ends here
            tail == Len(old) - j + 1            \* length from the end marker on
        IN /\ SubSeq(old, i, head) = startMarker
           /\ SubSeq(old, j, j + Len(endMarker) - 1) = endMarker
           /\ head < j
           /\ Len(new) >= head + tail
           /\ SubSeq(new, 1, head) = SubSeq(old, 1, head)
           /\ SubSeq(new, Len(new) - tail + 1, Len(new)) = SubSeq(old, j, Len(old))

\* the text strictly between the first start marker and the first end marker
Between(c) == SubSeq(c, indexOf(c, startMarker) + Len(startMarker) + 1, indexOf(c, endMarker))

\* the text before the first start marker and the text after the first end marker
Outside(c) ==
    <<SubSeq(c, 1, indexOf(c, startMarker)),
      SubSeq(c, indexOf(c, endMarker) + Len(endMarker) + 1, Len(c))>>

\* the step an error kind is thrown by
StepOf(kind) ==
    CASE kind = "config" -> "loadPromptConfig"
      [] kind = "user" -> "getByUsername"
      [] kind = "events" -> "listPublicEventsForUser"
      [] kind = "summary" -> "generateSummary"
      [] OTHER -> "updateReadme"

-----------------------------------------------------------------------------
(* Properties *)

\* C1: whenever updateReadme succeeds on a README that holds both markers, the
\* written file is the file read with only the text between the start marker
\* and the end marker replaced; the markers and the text outside are untouched.
C1_OutsidePreserved ==
    [][(pc = "updateReadme" /\ pc' = "done"
            /\ Occurs(readme, startMarker) /\ Occurs(readme, endMarker))
        => SplicedBetweenMarkers(readme, readme')]_vars

\* C2: when a marker is absent from the README, updateReadme throws and the
\* file is left as it was, no write being made.
C2_NoWriteWithoutMarkers ==
    [][(pc = "updateReadme" /\ runs' = runs + 1
            /\ (~Occurs(readme, startMarker) \/ ~Occurs(readme, endMarker)))
        => (readme' = readme /\ writes' = writes /\ failed' # "none" /\ pc' = "exit")]_vars

C2_Witness ==
    /\ failed = "markers"
    /\ Occurs(readme, startMarker)
    /\ ~Occurs(readme, endMarker)
    /\ readme = readme0

\* C3: the README is written at most once and only after every step before
\* updateReadme has succeeded; a run that fails in config loading, user lookup,
\* event listing, the completion call or on missing markers ends with the
\* README as it was before the run.
C3_NoPartialSuccess ==
    /\ writes <= 1
    /\ (writes > 0 \/ readme # readme0) => (steps = mainSteps /\ failed \in {"none", "write"})
    /\ (pc = "exit" /\ failed \in {"config", "user", "events", "summary", "markers"})
            => (readme = readme0 /\ writes = 0)

C3_Witness ==
    /\ pc = "exit"
    /\ failed = "summary"
    /\ events # <<>>
    /\ Occurs(readme, startMarker)
    /\ Occurs(readme, endMarker)
    /\ readme = readme0

\* C4: a run ends with status 0 exactly when no step failed and with status 1
\* otherwise; steps run once each in the order of main and the step that fails
\* is the last one executed.
C4_ExitStatus ==
    /\ IsPrefix(steps, mainSteps)
    /\ pc # "exit" => (exitCode = -1 /\ failed = "none")
    /\ pc = "exit" =>
          /\ exitCode \in {0, 1}
          /\ exitCode = 0 <=> failed = "none"
          /\ failed = "none" => steps = mainSteps
          /\ failed # "none" => (steps # <<>> /\ steps[Len(steps)] = StepOf(failed))

C4_Witness ==
    /\ pc = "exit"
    /\ exitCode = 1
    /\ failed = "events"
    /\ steps = SubSeq(mainSteps, 1, 3)

\* C5: after each successful updateReadme on a README that holds both markers,
\* the text between the markers is exactly the template of that call and the
\* text outside the markers is what it was before the first run.
C5_RegionIsTemplate ==
    (pc = "done" /\ Occurs(readme0, startMarker) /\ Occurs(readme0, endMarker))
        => /\ Between(readme) = Template(summary, badges, stamp)
           /\ Outside(readme) = Outside(readme0)

\* C6: fetchRecentActivity returns only events whose owner segment is the
\* resolved login, in the relative order of the delivered list.
C6_OnlyOwnEvents ==
    (Ran("listPublicEventsForUser") /\ failed = "none")
        => /\ \A i \in 1..Len(events) : OwnerSegment(events[i].repo.name) = login
           /\ IsSubsequence(events, rawEvents)

C6_Witness ==
    /\ Ran("listPublicEventsForUser")
    /\ failed = "none"
    /\ Len(events) = 2
    /\ Len(rawEvents) = 3
    /\ events[1] # events[2]
    /\ OwnerSegment(rawEvents[2].repo.name) # login
    /\ isWithinPastDay(rawEvents[2].created_at, now, localOffset, dateParses)

\* C7: every event fetchRecentActivity keeps is timestamped within the 24
\* hours that precede now: not more than 24 hours old and not after now.
C7_WithinPastDay ==
    (Ran("listPublicEventsForUser") /\ failed = "none")
        => \A i \in 1..Len(events) :
              /\ events[i].created_at >= now - DayMs
              /\ events[i].created_at <= now

\* C8: repoCount is the number of distinct repository full names of the list,
\* whatever the event types; it is 0 for the empty list.
C8_RepoCount ==
    Ran("calculateActivityStats")
        => /\ stats.repoCount = Cardinality({events[i].repo.name : i \in 1..Len(events)})
           /\ events = <<>> => stats.repoCount = 0

C8_Witness ==
    /\ Ran("calculateActivityStats")
    /\ Len(events) = 3
    /\ stats.repoCount = 2
    /\ \A i \in 1..3 : events[i].type = "WatchEvent"

\* C9: commitCount is the sum of the commit array lengths of the push events,
\* a push event without a commit array counting 0.
CommitsOfPush(event) ==
    IF event.type = "PushEvent" /\ "commits" \in DOMAIN event.payload
    THEN Len(event.payload.commits)
    ELSE 0

RECURSIVE SumOfPushCommits(_)
SumOfPushCommits(evs) ==
    IF evs = <<>> THEN 0 ELSE CommitsOfPush(Head(evs)) + SumOfPushCommits(Tail(evs))

C9_CommitCount ==
    Ran("calculateActivityStats") => stats.commitCount = SumOfPushCommits(events)

C9_Witness ==
    /\ Ran("calculateActivityStats")
    /\ Len(events) = 3
    /\ events[1].type = "PushEvent" /\ "commits" \notin DOMAIN events[1].payload
    /\ events[2].type = "PushEvent" /\ "commits" \in DOMAIN events[2].payload
    /\ events[3].type = "IssuesEvent"
    /\ stats.commitCount = 2

\* C10: prCount is the number of pull-request events with action "opened" and
\* issueCount the number of issue events with action "opened".
OpenedPullRequest(event) == event.type = "PullRequestEvent" /\ event.payload.action = "opened"
OpenedIssue(event) == event.type = "IssuesEvent" /\ event.payload.action = "opened"

C10_OpenedCounts ==
    Ran("calculateActivityStats")
        => /\ stats.prCount = CountOf(events, OpenedPullRequest)
           /\ stats.issueCount = CountOf(events, OpenedIssue)

C10_Witness ==
    /\ Ran("calculateActivityStats")
    /\ Len(events) = 3
    /\ events[1].type = "PullRequestEvent" /\ events[1].payload.action = "closed"
    /\ events[2].type = "IssuesEvent" /\ events[2].payload.action = "opened"
    /\ events[3].type = "PushEvent"
    /\ stats.prCount = 0
    /\ stats.issueCount = 1

====
